---- MODULE Spec2Model ----
(***************************************************************************)
(* Speech-To-Text-Solutions: the provider interface, the Amazon batch      *)
(* pipeline (upload, submit, poll, collect-and-cleanup sweeps) and the     *)
(* CSV result sink, as state machines.                                     *)
(*                                                                         *)
(* File names are sequences of one-character strings, so that the string   *)
(* operations of the code (replace, split, stem, sort keys) are computed.  *)
(* Time is an integer number of milliseconds since the start of the run.   *)
(***************************************************************************)
EXTENDS Integers, Sequences, FiniteSets, TLC

(***************************************************************************)
(* Bounds of the model.                                                    *)
(***************************************************************************)
\* largest number of matching files in the input directory
MaxFiles == 2
\* number of keys per delete_objects request: the source's 1000
\* (amazon_provider.py:563-564), scaled down so that a run of MaxFiles files
\* spans more than one request
S3DeleteBatch == 1
\* number of poll rounds whose sleep lasts exactly poll_interval; the later
\* sleeps of a run oversleep (see SleepChoices)
MaxShortSleeps == 1
\* number of _save_to_csv calls in the sink specification
MaxSaves == 2
\* longest file stem of the metadata specification
MaxStemLen == 7

(***************************************************************************)
(* Characters and file names.                                              *)
(***************************************************************************)
\* the characters of the model's file names, in code-point order
Alphabet == <<" ", "-", ".", "0", "1", "2", "_", "a", "w">>
Digits == {"0", "1", "2"}
CharCode(c) == CHOOSE i \in 1..Len(Alphabet) : Alphabet[i] = c
DigitVal(c) == CharCode(c) - CharCode("0")

\* "a 2.w", "a_2.w", "a_10.w": two names that differ only in a character the
\* job name replaces, and two that plain and natural order sort differently
FileUniverse ==
  { <<"a", " ", "2", ".", "w">>,
    <<"a", "_", "2", ".", "w">>,
    <<"a", "_", "1", "0", ".", "w">> }

\* str.replace('.', '-').replace(' ', '_')
Sanitize(filename) ==
  [i \in 1..Len(filename) |->
     IF filename[i] = "." THEN "-"
     ELSE IF filename[i] = " " THEN "_"
     ELSE filename[i]]

\* f"audio/{filename}"
S3Key(filename) == <<"audio/">> \o filename

\* f"transcribe-{int(time.time() * 1000)}-{sanitized_name}": the timestamp has
\* a fixed number of digits, so the pair determines the string and conversely
JobName(now, filename) == [ts |-> now, name |-> Sanitize(filename)]

\* index of the last "." of a name, 0 when there is none
LastDot(s) ==
  LET dots == {i \in 1..Len(s) : s[i] = "."}
  IN IF dots = {} THEN 0 ELSE CHOOSE i \in dots : \A j \in dots : j <= i

\* Path(filename).stem: the name without its last suffix (a leading dot and
\* a trailing dot start no suffix)
Stem(s) ==
  IF LastDot(s) <= 1 \/ LastDot(s) = Len(s) THEN s ELSE SubSeq(s, 1, LastDot(s) - 1)

\* str.split('_'): the parts between underscores, at least one part
RECURSIVE SplitUnderscore(_)
SplitUnderscore(s) ==
  LET us == {i \in 1..Len(s) : s[i] = "_"}
  IN IF us = {} THEN <<s>>
     ELSE LET i == CHOOSE k \in us : \A j \in us : k <= j
          IN <<SubSeq(s, 1, i - 1)>> \o SplitUnderscore(SubSeq(s, i + 1, Len(s)))

(***************************************************************************)
(* Sort orders.                                                            *)
(***************************************************************************)
\* plain string comparison, as sorted(audio_files) of the base provider uses
RECURSIVE LexLess(_, _)
LexLess(a, b) ==
  IF b = <<>> THEN FALSE
  ELSE IF a = <<>> THEN TRUE
  ELSE IF a[1] # b[1] THEN CharCode(a[1]) < CharCode(b[1])
  ELSE LexLess(Tail(a), Tail(b))

\* length of the leading run of digits
RECURSIVE DigitRun(_)
DigitRun(s) ==
  IF s = <<>> \/ s[1] \notin Digits THEN 0 ELSE 1 + DigitRun(Tail(s))

\* value of a string of digits
RECURSIVE IntOf(_)
IntOf(s) ==
  IF s = <<>> THEN 0 ELSE 10 * IntOf(SubSeq(s, 1, Len(s) - 1)) + DigitVal(s[Len(s)])

\* natural order: digit runs compare as integers, the rest as text; the end
\* of a text chunk sorts before any character
RECURSIVE NaturalLess(_, _)
NaturalLess(a, b) ==
  IF b = <<>> THEN FALSE
  ELSE IF a = <<>> THEN TRUE
  ELSE IF a[1] \in Digits /\ b[1] \in Digits
    THEN LET na == DigitRun(a)
             nb == DigitRun(b)
             va == IntOf(SubSeq(a, 1, na))
             vb == IntOf(SubSeq(b, 1, nb))
         IN IF va # vb THEN va < vb
            ELSE NaturalLess(SubSeq(a, na + 1, Len(a)), SubSeq(b, nb + 1, Len(b)))
  ELSE IF a[1] \in Digits THEN TRUE
  ELSE IF b[1] \in Digits THEN FALSE
  ELSE IF a[1] # b[1] THEN CharCode(a[1]) < CharCode(b[1])
  ELSE NaturalLess(Tail(a), Tail(b))

\* sorted(files, key=self._natural_sort_key)
RECURSIVE NaturalSorted(_)
NaturalSorted(S) ==
  IF S = {} THEN <<>>
  ELSE LET m == CHOOSE x \in S : \A y \in S \ {x} : NaturalLess(x, y)
       IN <<m>> \o NaturalSorted(S \ {m})

\* sorted(files)
RECURSIVE LexSorted(_)
LexSorted(S) ==
  IF S = {} THEN <<>>
  ELSE LET m == CHOOSE x \in S : \A y \in S \ {x} : LexLess(x, y)
       IN <<m>> \o LexSorted(S \ {m})

(***************************************************************************)
(* Program constants.                                                      *)
(***************************************************************************)
\* _wait_for_jobs_completion: max_wait_time = 600 (seconds)
max_wait_time == 600
\* _wait_for_jobs_completion: poll_interval = 5 (seconds)
poll_interval == 5
\* _upload_files_to_s3: time.sleep(0.01), in milliseconds
upload_sleep_ms == 10

Providers == {"azure", "amazon", "google", "custom_service"}

\* marks an attribute, a dict key or a file that does not exist
Absent == "<absent>"

\* self.provider_name once the constructor has returned
ProviderNameAfterInit(p) ==
  CASE p = "azure" -> "azure"
    [] p = "amazon" -> "amazon"
    [] OTHER -> Absent

(***************************************************************************)
(* The environment: clock and remote services.                             *)
(***************************************************************************)
\* milliseconds that pass during one upload_file call
ClockSteps == {0, 1}
\* what get_transcription_job can do: raise, answer for another job, or answer
\* with a status
PollOutcomes == {"raise", "mismatch", "IN_PROGRESS", "COMPLETED", "FAILED"}
\* FailureReason of a FAILED job (Absent would stand for a response without one)
FailureReasons == {"bad audio"}
\* f"{aws_duration:.2f}" of a COMPLETED job ("" would stand for a response
\* without its timestamps)
CompletionTimes == {"2.00"}
\* the transcript a successful fetch returns
TranscriptText == "hello"

(***************************************************************************)
(* State.                                                                  *)
(***************************************************************************)
VARIABLES
  entry,            \* the operation called: "main", "transcribe_directory",
                    \* "transcribe_file", "save", "metadata"
  provider,         \* the provider class constructed
  provider_name,    \* self.provider_name, Absent when the attribute was never set
  dir_exists,       \* audio_dir_path.exists()
  audio_files,      \* the matching files of the directory (a set of names)
  pc,               \* position of the running operation
  idx,              \* position of the current loop in its sequence
  clock,            \* time.time() in milliseconds
  start_time,       \* start_time of the poll loop, milliseconds
  short_sleeps,     \* sleeps of exactly poll_interval taken so far
  jobs,             \* the jobs dict, in insertion order
  submitted_jobs,   \* the pending dict of the poll sweep: job names in order
  jobs_to_remove,   \* job names to delete from submitted_jobs this round
  results,          \* the result records produced so far
  s3_keys_to_delete,\* keys collected for the bulk delete
  s3_requests,      \* delete_objects requests issued: <<[keys, ok]>>
  job_deletes,      \* delete_transcription_job calls issued: <<[job, ok]>>
  remote_calls,     \* upload, submit and fetch calls issued: <<[op, job, ok]>>
  raised,           \* exception that left the operation, Absent when none
  sink,             \* the _save_to_csv calls made: <<[batch, existed, read_ok]>>
  csv_file,         \* the output file: [exists, rows]
  fpc,              \* position inside a transcribe_file call, "idle" outside
  file_response,    \* transcribe_file of Amazon: the last poll response
  ret,              \* the record the last transcribe_file call returned
  exit_code         \* the exit code of the command-line program, NotExited while it runs

vars == <<entry, provider, provider_name, dir_exists, audio_files, pc, idx, clock,
          start_time, short_sleeps, jobs, submitted_jobs, jobs_to_remove, results,
          s3_keys_to_delete, s3_requests, job_deletes, remote_calls, raised, sink,
          csv_file, fpc, file_response, ret, exit_code>>

NoFile == [exists |-> FALSE, rows |-> <<>>]

\* an entry of remote_calls
Call(op, job, ok) == [op |-> op, job |-> job, ok |-> ok]

\* position of a key in a dict kept as a sequence, 0 when it has no entry
DictIndex(d, k) ==
  IF \E i \in 1..Len(d) : d[i].job_name = k
    THEN CHOOSE i \in 1..Len(d) : d[i].job_name = k
    ELSE 0

\* d[k] = v: a new key is appended, an existing key keeps its position
DictPut(d, v) ==
  IF DictIndex(d, v.job_name) = 0 THEN Append(d, v)
  ELSE [d EXCEPT ![DictIndex(d, v.job_name)] = v]

\* the sequence without the elements of a set
RECURSIVE SeqMinus(_, _)
SeqMinus(s, S) ==
  IF s = <<>> THEN <<>>
  ELSE IF s[1] \in S THEN SeqMinus(Tail(s), S)
  ELSE <<s[1]>> \o SeqMinus(Tail(s), S)

Range(s) == {s[i] : i \in 1..Len(s)}

\* r.update(s)
Merge(r, s) == [k \in DOMAIN r \cup DOMAIN s |-> IF k \in DOMAIN s THEN s[k] ELSE r[k]]

(***************************************************************************)
(* The result sink: SpeechToTextProvider._save_to_csv.                     *)
(***************************************************************************)
standard_fields == <<"filename", "provider", "text", "status", "transcription_time">>

\* the other field names a record can carry, in lexicographic order
OtherFieldsSorted == <<"audio", "noise", "person", "snr">>

\* all_keys: the union of the keys of the records
AllKeys(batch) == UNION {DOMAIN batch[i] : i \in 1..Len(batch)}

\* the elements of a sequence that are in a set, in the sequence's order
Restrict(s, S) == LET In(x) == x \in S IN SelectSeq(s, In)

\* additional fields taken in an order that is not the sorted one
AdditionalFields_Unsorted(keys) ==
  Restrict(<<"snr", "person", "noise", "audio">>, keys \ Range(standard_fields))

\* sorted(all_keys - set(standard_fields))
AdditionalFields(keys) == Restrict(OtherFieldsSorted, keys \ Range(standard_fields))

\* fieldnames before the destination is looked at
ComputedFieldnames(batch) ==
  Restrict(standard_fields, AllKeys(batch)) \o AdditionalFields(AllKeys(batch))

\* csv.DictReader(csvfile).fieldnames: the first row, <<>> (None) without one
ExistingFieldnames(file) == IF file.rows = <<>> THEN <<>> ELSE file.rows[1]

\* the fieldnames the writer is given
ResolvedFieldnames(file, batch, read_ok) ==
  LET computed == ComputedFieldnames(batch)
      existing == ExistingFieldnames(file)
  IN IF file.exists /\ read_ok /\ existing # <<>>
       THEN existing \o Restrict(computed, Range(computed) \ Range(existing))
       ELSE computed

\* file_exists when the file is opened for writing
AppendMode(file, read_ok) == file.exists /\ read_ok

\* mode = 'a' if file_exists else 'w'
OpenMode(file, read_ok) == IF AppendMode(file, read_ok) THEN "a" ELSE "w"

\* writer.writerow(result) with extrasaction='ignore' and restval ''
CsvRow(fieldnames, result) ==
  [i \in 1..Len(fieldnames) |->
     IF fieldnames[i] \in DOMAIN result THEN result[fieldnames[i]] ELSE ""]

\* the file after _save_to_csv(results, output_file); read_ok is whether
\* reading the existing header raised no IOError or csv.Error
SaveToCsv(file, batch, read_ok) ==
  IF batch = <<>> THEN file
  ELSE LET fieldnames == ResolvedFieldnames(file, batch, read_ok)
           written == [i \in 1..Len(batch) |-> CsvRow(fieldnames, batch[i])]
       IN IF AppendMode(file, read_ok)
            THEN [exists |-> TRUE, rows |-> file.rows \o written]
            ELSE [exists |-> TRUE, rows |-> <<fieldnames>> \o written]

\* an entry of sink: the batch, whether the file existed before the call,
\* whether its header could be read, the lines it held, and the fieldnames
\* and the mode the call opened it with (none when the batch is empty)
SaveCall(batch, file, read_ok) ==
  [batch |-> batch, existed |-> file.exists, read_ok |-> read_ok,
   before |-> file.rows,
   fieldnames |-> IF batch = <<>> THEN <<>> ELSE ResolvedFieldnames(file, batch, read_ok),
   mode |-> IF batch = <<>> THEN Absent ELSE OpenMode(file, read_ok)]

(***************************************************************************)
(* The Amazon batch pipeline: records.                                     *)
(***************************************************************************)
NoResponse == [status |-> Absent, reason |-> Absent, time |-> Absent]

NoError == Absent

\* the entry _upload_files_to_s3 stores for a file
JobEntry(job_name, filename, status, error) ==
  [job_name |-> job_name, filename |-> filename, s3_key |-> S3Key(filename),
   status |-> status, error |-> error, response |-> NoResponse]

\* the four-field record every transcribe path returns
Record(filename, text, status, time) ==
  [filename |-> filename, text |-> text, status |-> status,
   transcription_time |-> time]

\* a parser that takes no field from a stem without underscore
FilenameMetadata_NoSinglePart(filename) ==
  LET parts == SplitUnderscore(Stem(filename))
      names == <<"person", "audio", "noise", "snr">>
      n == IF Len(parts) = 1 THEN 0 ELSE IF Len(parts) < 4 THEN Len(parts) ELSE 4
  IN [k \in {names[i] : i \in 1..n} |->
        parts[CHOOSE i \in 1..n : names[i] = k]]

\* _add_filename_metadata: the fields taken from the stem's parts
FilenameMetadata(filename) ==
  LET parts == SplitUnderscore(Stem(filename))
      names == <<"person", "audio", "noise", "snr">>
      n == IF Len(parts) < 4 THEN Len(parts) ELSE 4
  IN [k \in {names[i] : i \in 1..n} |->
        parts[CHOOSE i \in 1..n : names[i] = k]]

\* a collect sweep that deletes the remote job of every descriptor
DeleteJobAttempted_Always(job_info, fetch_ok) == TRUE

\* whether _process_single_job_result reaches delete_transcription_job
DeleteJobAttempted(job_info, fetch_ok) ==
  \/ job_info.status = "completed" /\ fetch_ok
  \/ job_info.status = "failed"

\* a collect sweep that takes the transcript for fetched whatever the
\* download did
ProcessSingleJobResult_FetchIgnored(job_info, fetch_ok, delete_ok) ==
  IF job_info.status = "completed"
    THEN IF ~delete_ok
           THEN Record(job_info.filename, "", "exception: delete failed", "")
         ELSE Record(job_info.filename, TranscriptText, "success",
                     job_info.response.time)
  ELSE IF job_info.status = "failed"
    THEN IF ~delete_ok
           THEN Record(job_info.filename, "", "exception: delete failed", "")
         ELSE Record(job_info.filename, "",
                     "failed: " \o (IF job_info.response.reason = Absent
                                      THEN "Unknown"
                                      ELSE job_info.response.reason), "")
  ELSE Record(job_info.filename, "",
              "error: " \o (IF job_info.error = NoError THEN job_info.status
                            ELSE job_info.error), "")

\* _process_single_job_result: fetch_ok and delete_ok are the outcomes of the
\* transcript download and of delete_transcription_job
ProcessSingleJobResult(job_info, fetch_ok, delete_ok) ==
  IF job_info.status = "completed"
    THEN IF ~fetch_ok
           THEN Record(job_info.filename, "", "exception: fetch failed", "")
         ELSE IF ~delete_ok
           THEN Record(job_info.filename, "", "exception: delete failed", "")
         ELSE Record(job_info.filename, TranscriptText, "success",
                     job_info.response.time)
  ELSE IF job_info.status = "failed"
    THEN IF ~delete_ok
           THEN Record(job_info.filename, "", "exception: delete failed", "")
         ELSE Record(job_info.filename, "",
                     "failed: " \o (IF job_info.response.reason = Absent
                                      THEN "Unknown"
                                      ELSE job_info.response.reason), "")
  ELSE Record(job_info.filename, "",
              "error: " \o (IF job_info.error = NoError THEN job_info.status
                            ELSE job_info.error), "")

(***************************************************************************)
(* transcribe_directory: listing the directory.                            *)
(***************************************************************************)
\* the order of the upload sweep
UploadOrder == NaturalSorted(audio_files)

\* the order of the base provider's loop
LoopOrder == LexSorted(audio_files)

\* the entry points that run transcribe_directory: the method itself, and
\* main through stt.transcribe_directory(...)
DirectoryEntries == {"transcribe_directory", "main"}

BatchVars == <<jobs, submitted_jobs, jobs_to_remove, s3_keys_to_delete,
               s3_requests, job_deletes, start_time, short_sleeps>>

FileVars == <<fpc, file_response, ret>>

\* a transcribe_directory that returns normally when the directory is missing
DirNotFound_Ignored ==
  /\ entry \in DirectoryEntries
  /\ pc = "start"
  /\ ~dir_exists
  /\ pc' = "done"
  /\ UNCHANGED FileVars
  /\ UNCHANGED exit_code
  /\ UNCHANGED <<entry, provider, provider_name, dir_exists, audio_files, idx, clock,
                 results, remote_calls, raised, sink, csv_file>>
  /\ UNCHANGED BatchVars

\* raise ValueError(f"Directory not found: {audio_dir}")
DirNotFound ==
  /\ entry \in DirectoryEntries
  /\ pc = "start"
  /\ ~dir_exists
  /\ pc' = "raised"
  /\ raised' = "ValueError"
  /\ UNCHANGED FileVars
  /\ UNCHANGED exit_code
  /\ UNCHANGED <<entry, provider, provider_name, dir_exists, audio_files, idx, clock,
                 results, remote_calls, sink, csv_file>>
  /\ UNCHANGED BatchVars

\* if not audio_files: return
DirEmpty ==
  /\ entry \in DirectoryEntries
  /\ pc = "start"
  /\ dir_exists
  /\ audio_files = {}
  /\ pc' = "done"
  /\ UNCHANGED FileVars
  /\ UNCHANGED exit_code
  /\ UNCHANGED <<entry, provider, provider_name, dir_exists, audio_files, idx, clock,
                 results, remote_calls, raised, sink, csv_file>>
  /\ UNCHANGED BatchVars

\* AmazonTranscribe.transcribe_directory: results = self._batch_transcribe(audio_files)
BatchStart ==
  /\ entry \in DirectoryEntries
  /\ pc = "start"
  /\ dir_exists
  /\ audio_files # {}
  /\ provider = "amazon"
  /\ pc' = "upload"
  /\ idx' = 1
  /\ jobs' = <<>>
  /\ UNCHANGED FileVars
  /\ UNCHANGED exit_code
  /\ UNCHANGED <<entry, provider, provider_name, dir_exists, audio_files, clock,
                 results, remote_calls, raised, sink, csv_file, submitted_jobs,
                 jobs_to_remove, s3_keys_to_delete, s3_requests, job_deletes,
                 start_time, short_sleeps>>

(***************************************************************************)
(* Sweep 1: _upload_files_to_s3.                                           *)
(***************************************************************************)
\* the entry stored for a file: in the try block after a successful upload,
\* in the except block otherwise
UploadedEntry(job_name, filename, ok) ==
  IF ok THEN JobEntry(job_name, filename, "uploaded", NoError)
  ELSE JobEntry(job_name, filename, "upload_failed", "upload failed")

\* the clock when the next iteration starts: the upload took d milliseconds,
\* and time.sleep(0.01) follows a successful upload only
AfterUpload(now, d, ok) == IF ok THEN now + d + upload_sleep_ms ELSE now + d

\* one iteration of the loop over the sorted files: the job name is taken
\* from the clock, the upload succeeds or raises, and only a successful
\* upload is followed by the sleep
UploadStep ==
  /\ pc = "upload"
  /\ idx <= Len(UploadOrder)
  /\ LET filename == UploadOrder[idx]
         job_name == JobName(clock, filename)
     IN \E ok \in BOOLEAN, d \in ClockSteps :
          /\ remote_calls' = Append(remote_calls, Call("upload", job_name, ok))
          /\ jobs' = DictPut(jobs, UploadedEntry(job_name, filename, ok))
          /\ clock' = AfterUpload(clock, d, ok)
  /\ idx' = idx + 1
  /\ UNCHANGED FileVars
  /\ UNCHANGED exit_code
  /\ UNCHANGED <<entry, provider, provider_name, dir_exists, audio_files, pc, results,
                 raised, sink, csv_file, submitted_jobs, jobs_to_remove,
                 s3_keys_to_delete, s3_requests, job_deletes, start_time, short_sleeps>>

\* return jobs; self._start_transcription_jobs(jobs)
UploadDone ==
  /\ pc = "upload"
  /\ idx > Len(UploadOrder)
  /\ pc' = "submit"
  /\ idx' = 1
  /\ UNCHANGED FileVars
  /\ UNCHANGED exit_code
  /\ UNCHANGED <<entry, provider, provider_name, dir_exists, audio_files, clock,
                 results, remote_calls, raised, sink, csv_file>>
  /\ UNCHANGED BatchVars

(***************************************************************************)
(* Sweep 2: _start_transcription_jobs.                                     *)
(***************************************************************************)
\* if job_info['status'] != 'uploaded': continue
SubmitSkip ==
  /\ pc = "submit"
  /\ idx <= Len(jobs)
  /\ jobs[idx].status # "uploaded"
  /\ idx' = idx + 1
  /\ UNCHANGED FileVars
  /\ UNCHANGED exit_code
  /\ UNCHANGED <<entry, provider, provider_name, dir_exists, audio_files, pc, clock,
                 results, remote_calls, raised, sink, csv_file>>
  /\ UNCHANGED BatchVars

\* the entry after start_transcription_job returned or raised
SubmittedEntry(job_info, ok) ==
  IF ok THEN [job_info EXCEPT !.status = "submitted"]
  ELSE [job_info EXCEPT !.status = "submit_failed", !.error = "submit failed"]

\* start_transcription_job for an uploaded entry
SubmitStep ==
  /\ pc = "submit"
  /\ idx <= Len(jobs)
  /\ jobs[idx].status = "uploaded"
  /\ \E ok \in BOOLEAN :
       /\ remote_calls' = Append(remote_calls, Call("submit", jobs[idx].job_name, ok))
       /\ jobs' = [jobs EXCEPT ![idx] = SubmittedEntry(jobs[idx], ok)]
  /\ idx' = idx + 1
  /\ UNCHANGED FileVars
  /\ UNCHANGED exit_code
  /\ UNCHANGED <<entry, provider, provider_name, dir_exists, audio_files, pc, clock,
                 results, raised, sink, csv_file, submitted_jobs, jobs_to_remove,
                 s3_keys_to_delete, s3_requests, job_deletes, start_time, short_sleeps>>

\* a pending dict that takes every entry of the jobs map
SubmittedNames_All(js) == [i \in 1..Len(js) |-> js[i].job_name]

\* the names of the entries with status 'submitted', in dict order
SubmittedNames(js) ==
  LET sel == Restrict(js, {js[i] : i \in {k \in 1..Len(js) : js[k].status = "submitted"}})
  IN [i \in 1..Len(sel) |-> sel[i].job_name]

\* the submit sweep returns; _wait_for_jobs_completion takes its pending dict
\* and its start_time
SubmitDone ==
  /\ pc = "submit"
  /\ idx > Len(jobs)
  /\ submitted_jobs' = SubmittedNames(jobs)
  /\ start_time' = clock
  /\ jobs_to_remove' = <<>>
  /\ pc' = "poll_top"
  /\ idx' = 1
  /\ UNCHANGED FileVars
  /\ UNCHANGED exit_code
  /\ UNCHANGED <<entry, provider, provider_name, dir_exists, audio_files, clock,
                 results, remote_calls, raised, sink, csv_file, jobs,
                 s3_keys_to_delete, s3_requests, job_deletes, short_sleeps>>

(***************************************************************************)
(* Sweep 3: _wait_for_jobs_completion.                                     *)
(***************************************************************************)
\* a poll loop without its deadline check
DeadlineExceeded_Never(now, start) == FALSE

\* time.time() - start_time > max_wait_time
DeadlineExceeded(now, start) == now - start > max_wait_time * 1000

\* how long a time.sleep(poll_interval) can last, in milliseconds: exactly the
\* interval, or long enough to carry the clock to the deadline
SleepChoices ==
  (IF short_sleeps < MaxShortSleeps THEN {poll_interval * 1000} ELSE {})
    \cup {max_wait_time * 1000}

\* no run of the program sleeps once this much of the poll sweep has passed
ClockCap == 3 * max_wait_time * 1000

\* the responses a successful get_transcription_job can carry for a status
PollResponses(status) ==
  IF status = "COMPLETED"
    THEN {[status |-> status, reason |-> Absent, time |-> t] : t \in CompletionTimes}
    ELSE {[status |-> status, reason |-> r, time |-> Absent] : r \in FailureReasons}

\* a terminal response that is stored without the status being changed
PollTerminal_StatusKept(job_info, response) ==
  [job_info EXCEPT !.response = response]

\* the entry after a poll that found a terminal status
PollTerminal(job_info, response) ==
  [job_info EXCEPT !.response = response,
                   !.status = IF response.status = "COMPLETED" THEN "completed"
                              ELSE "failed"]

\* a poll fault that marks the entry without recording the error
PollFailed_NoError(job_info, error) ==
  [job_info EXCEPT !.status = "check_failed"]

\* the entry after a poll that raised
PollFailed(job_info, error) ==
  [job_info EXCEPT !.status = "check_failed", !.error = error]

\* the bodies a response that names another job can carry: the status and
\* the data of that other job
MismatchResponses ==
  {[status |-> st, reason |-> Absent, time |-> "of another job"] :
     st \in {"IN_PROGRESS", "COMPLETED", "FAILED"}}

\* a poll that takes the response of another job for the answer
PollMismatch_Accepted(job_info, response) ==
  IF response.status \in {"COMPLETED", "FAILED"}
    THEN [job_info EXCEPT !.response = response,
                          !.status = IF response.status = "COMPLETED" THEN "completed"
                                     ELSE "failed"]
    ELSE job_info

\* the entry after a response whose TranscriptionJobName is not the requested
\* one: ValueError is raised before the response is looked at further, and
\* the except branch records it
PollMismatch(job_info, response) == PollFailed(job_info, "Job name mismatch")

\* while submitted_jobs: false, the loop is left
PollExit ==
  /\ pc = "poll_top"
  /\ submitted_jobs = <<>>
  /\ pc' = "collect"
  /\ idx' = 1
  /\ UNCHANGED FileVars
  /\ UNCHANGED exit_code
  /\ UNCHANGED <<entry, provider, provider_name, dir_exists, audio_files, clock,
                 results, remote_calls, raised, sink, csv_file>>
  /\ UNCHANGED BatchVars

\* a poll loop that breaks at the top of a round whatever the clock says
PollTimeout_NoDeadline ==
  /\ pc = "poll_top"
  /\ submitted_jobs # <<>>
  /\ pc' = "collect"
  /\ idx' = 1
  /\ UNCHANGED FileVars
  /\ UNCHANGED exit_code
  /\ UNCHANGED <<entry, provider, provider_name, dir_exists, audio_files, clock,
                 results, remote_calls, raised, sink, csv_file>>
  /\ UNCHANGED BatchVars

\* the deadline check at the top of a round: break
PollTimeout ==
  /\ pc = "poll_top"
  /\ submitted_jobs # <<>>
  /\ DeadlineExceeded(clock, start_time)
  /\ pc' = "collect"
  /\ idx' = 1
  /\ UNCHANGED FileVars
  /\ UNCHANGED exit_code
  /\ UNCHANGED <<entry, provider, provider_name, dir_exists, audio_files, clock,
                 results, remote_calls, raised, sink, csv_file>>
  /\ UNCHANGED BatchVars

\* the deadline check passes: a round over the pending jobs begins
PollRoundStart ==
  /\ pc = "poll_top"
  /\ submitted_jobs # <<>>
  /\ ~DeadlineExceeded(clock, start_time)
  /\ jobs_to_remove' = <<>>
  /\ pc' = "poll_call"
  /\ idx' = 1
  /\ UNCHANGED FileVars
  /\ UNCHANGED exit_code
  /\ UNCHANGED <<entry, provider, provider_name, dir_exists, audio_files, clock,
                 results, remote_calls, raised, sink, csv_file, jobs, submitted_jobs,
                 s3_keys_to_delete, s3_requests, job_deletes, start_time, short_sleeps>>

\* get_transcription_job for one pending job and what the round does with
\* the answer
PollStep ==
  /\ pc = "poll_call"
  /\ idx <= Len(submitted_jobs)
  /\ LET job_name == submitted_jobs[idx]
         k == DictIndex(jobs, job_name)
     IN /\ \E outcome \in PollOutcomes :
             \/ /\ outcome = "raise"
                /\ jobs' = [jobs EXCEPT ![k] = PollFailed(jobs[k], "poll failed")]
                /\ jobs_to_remove' = Append(jobs_to_remove, job_name)
             \/ /\ outcome = "mismatch"
                /\ \E response \in MismatchResponses :
                     jobs' = [jobs EXCEPT ![k] = PollMismatch(jobs[k], response)]
                /\ jobs_to_remove' = Append(jobs_to_remove, job_name)
             \/ /\ outcome = "IN_PROGRESS"
                /\ UNCHANGED <<jobs, jobs_to_remove>>
             \/ /\ outcome \in {"COMPLETED", "FAILED"}
                /\ \E response \in PollResponses(outcome) :
                     jobs' = [jobs EXCEPT ![k] = PollTerminal(jobs[k], response)]
                /\ jobs_to_remove' = Append(jobs_to_remove, job_name)
  /\ idx' = idx + 1
  /\ UNCHANGED FileVars
  /\ UNCHANGED exit_code
  /\ UNCHANGED <<entry, provider, provider_name, dir_exists, audio_files, pc, clock,
                 results, remote_calls, raised, sink, csv_file, submitted_jobs,
                 s3_keys_to_delete, s3_requests, job_deletes, start_time, short_sleeps>>

\* the end of a round: the finished jobs leave the pending dict, and the
\* loop sleeps when jobs are still pending
PollRoundEnd ==
  /\ pc = "poll_call"
  /\ idx > Len(submitted_jobs)
  /\ LET pending == SeqMinus(submitted_jobs, Range(jobs_to_remove))
     IN /\ submitted_jobs' = pending
        /\ IF pending # <<>>
             THEN /\ clock - start_time <= ClockCap
                  /\ \E d \in SleepChoices :
                       /\ clock' = clock + d
                       /\ short_sleeps' = IF d = poll_interval * 1000
                                            THEN short_sleeps + 1 ELSE short_sleeps
             ELSE UNCHANGED <<clock, short_sleeps>>
  /\ jobs_to_remove' = <<>>
  /\ pc' = "poll_top"
  /\ idx' = 1
  /\ UNCHANGED FileVars
  /\ UNCHANGED exit_code
  /\ UNCHANGED <<entry, provider, provider_name, dir_exists, audio_files, results,
                 remote_calls, raised, sink, csv_file, jobs, s3_keys_to_delete,
                 s3_requests, job_deletes, start_time>>

(***************************************************************************)
(* Sweep 4: _process_results_and_cleanup and _cleanup_s3_files.            *)
(***************************************************************************)
\* one iteration of the loop over jobs.items(): the key is queued for
\* deletion, the result is built, tagged and appended
CollectStep ==
  /\ pc = "collect"
  /\ idx <= Len(jobs)
  /\ LET job_info == jobs[idx]
     IN /\ s3_keys_to_delete' = Append(s3_keys_to_delete, job_info.s3_key)
        /\ \E fetch_ok \in BOOLEAN, delete_ok \in BOOLEAN :
             /\ job_info.status # "completed" => fetch_ok
             /\ ~DeleteJobAttempted(job_info, fetch_ok) => delete_ok
             /\ remote_calls' =
                  IF job_info.status = "completed"
                    THEN Append(remote_calls, Call("fetch", job_info.job_name, fetch_ok))
                    ELSE remote_calls
             /\ job_deletes' =
                  IF DeleteJobAttempted(job_info, fetch_ok)
                    THEN Append(job_deletes, [job |-> job_info.job_name, ok |-> delete_ok])
                    ELSE job_deletes
             /\ results' =
                  Append(results,
                         Merge(Merge(ProcessSingleJobResult(job_info, fetch_ok, delete_ok),
                                     [provider |-> provider_name]),
                               FilenameMetadata(job_info.filename)))
  /\ idx' = idx + 1
  /\ UNCHANGED FileVars
  /\ UNCHANGED exit_code
  /\ UNCHANGED <<entry, provider, provider_name, dir_exists, audio_files, pc, clock,
                 raised, sink, csv_file, jobs, submitted_jobs, jobs_to_remove,
                 s3_requests, start_time, short_sleeps>>

\* self._cleanup_s3_files(s3_keys_to_delete) is entered
CollectDone ==
  /\ pc = "collect"
  /\ idx > Len(jobs)
  /\ pc' = "cleanup"
  /\ idx' = 1
  /\ UNCHANGED FileVars
  /\ UNCHANGED exit_code
  /\ UNCHANGED <<entry, provider, provider_name, dir_exists, audio_files, clock,
                 results, remote_calls, raised, sink, csv_file>>
  /\ UNCHANGED BatchVars

\* the keys of the request that starts at position i
DeleteBatchAt(keys, i) ==
  SubSeq(keys, i, IF i + S3DeleteBatch - 1 < Len(keys) THEN i + S3DeleteBatch - 1
                  ELSE Len(keys))

\* where the loop over the batches goes after a request: to the next batch,
\* or out of the loop when the request raised
AfterDeleteRequest(i, ok, keys) == IF ok THEN i + S3DeleteBatch ELSE Len(keys) + 1

\* one delete_objects request
CleanupStep ==
  /\ pc = "cleanup"
  /\ idx <= Len(s3_keys_to_delete)
  /\ \E ok \in BOOLEAN :
       /\ s3_requests' = Append(s3_requests,
                                [keys |-> DeleteBatchAt(s3_keys_to_delete, idx), ok |-> ok])
       /\ idx' = AfterDeleteRequest(idx, ok, s3_keys_to_delete)
  /\ UNCHANGED FileVars
  /\ UNCHANGED exit_code
  /\ UNCHANGED <<entry, provider, provider_name, dir_exists, audio_files, pc, clock,
                 results, remote_calls, raised, sink, csv_file, jobs, submitted_jobs,
                 jobs_to_remove, s3_keys_to_delete, job_deletes, start_time,
                 short_sleeps>>

\* _cleanup_s3_files returns (nothing to delete, all requests sent, or the
\* exception of a request caught); _batch_transcribe returns the results
CleanupDone ==
  /\ pc = "cleanup"
  /\ idx > Len(s3_keys_to_delete)
  /\ pc' = "save"
  /\ UNCHANGED FileVars
  /\ UNCHANGED exit_code
  /\ UNCHANGED <<entry, provider, provider_name, dir_exists, audio_files, idx, clock,
                 results, remote_calls, raised, sink, csv_file>>
  /\ UNCHANGED BatchVars

\* self._save_to_csv(results, output_csv) at the end of transcribe_directory
SaveResults ==
  /\ pc = "save"
  /\ \E read_ok \in BOOLEAN :
       /\ ~csv_file.exists => read_ok
       /\ sink' = Append(sink, SaveCall(results, csv_file, read_ok))
       /\ csv_file' = SaveToCsv(csv_file, results, read_ok)
  /\ pc' = "done"
  /\ UNCHANGED FileVars
  /\ UNCHANGED exit_code
  /\ UNCHANGED <<entry, provider, provider_name, dir_exists, audio_files, idx, clock,
                 results, remote_calls, raised>>
  /\ UNCHANGED BatchVars

(***************************************************************************)
(* transcribe_file of the synchronous providers.                           *)
(***************************************************************************)
\* the file the running transcribe_file call was given
CurFile == LoopOrder[idx]

\* a transcribe_file call is about to be made: directly, or by the loop of
\* the base transcribe_directory
InCall ==
  /\ fpc = "idle"
  /\ \/ entry = "transcribe_file" /\ pc = "start"
     \/ pc = "loop" /\ idx <= Len(LoopOrder)

\* what can happen inside AzureSpeechToText.transcribe_file: an exception
\* while the recognizer is built or runs, or a result with one of the reasons
AzureOutcomes ==
  {"construct_raises", "recognize_raises", "RecognizedSpeech", "NoMatch",
   "Canceled", "details_raise", "OtherReason"}

\* a NoMatch branch that returns a text with its failure status
AzureResult_NoMatchText(filename, outcome) ==
  CASE outcome = "RecognizedSpeech" -> Record(filename, TranscriptText, "success", "1.00")
    [] outcome = "NoMatch" -> Record(filename, TranscriptText, "no_speech_detected", "1.00")
    [] outcome = "Canceled" -> Record(filename, "", "canceled: Reason=Error", "1.00")
    [] outcome = "OtherReason" -> Record(filename, "", "unknown_result: reason", "1.00")
    [] OTHER -> Record(filename, "", "exception: " \o outcome, "")

AzureResult(filename, outcome) ==
  CASE outcome = "RecognizedSpeech" -> Record(filename, TranscriptText, "success", "1.00")
    [] outcome = "NoMatch" -> Record(filename, "", "no_speech_detected", "1.00")
    [] outcome = "Canceled" -> Record(filename, "", "canceled: Reason=Error", "1.00")
    [] outcome = "OtherReason" -> Record(filename, "", "unknown_result: reason", "1.00")
    [] OTHER -> Record(filename, "", "exception: " \o outcome, "")

\* what can happen inside GoogleSpeechToText.transcribe_file
GoogleOutcomes == {"read_raises", "recognize_raises", "results", "no_results"}

GoogleResult(filename, outcome) ==
  CASE outcome = "results" -> Record(filename, TranscriptText, "success", "1.00")
    [] outcome = "no_results" -> Record(filename, "", "success", "1.00")
    [] OTHER -> Record(filename, "", "error: " \o outcome, "")

\* what can happen inside CustomServiceProvider.transcribe_file
CustomOutcomes ==
  {"open_raises", "Timeout", "ConnectionError", "HTTPError", "json_raises",
   "text", "no_text_key"}

CustomResult(filename, outcome) ==
  CASE outcome = "text" -> Record(filename, TranscriptText, "success", "1.00")
    [] outcome = "no_text_key" -> Record(filename, "", "success", "1.00")
    [] outcome = "Timeout" -> Record(filename, "", "error: request timeout", "")
    [] outcome = "ConnectionError" ->
         Record(filename, "", "error: cannot connect to service", "")
    [] outcome = "HTTPError" -> Record(filename, "", "error: HTTP 500", "")
    [] OTHER -> Record(filename, "", "exception: " \o outcome, "")

SyncUnchanged ==
  /\ UNCHANGED <<entry, provider, provider_name, dir_exists, audio_files, pc, idx,
                 clock, results, remote_calls, raised, sink, csv_file, file_response,
                 exit_code>>
  /\ UNCHANGED BatchVars

AzureTranscribeFile ==
  /\ InCall
  /\ provider = "azure"
  /\ \E outcome \in AzureOutcomes : ret' = AzureResult(CurFile, outcome)
  /\ fpc' = "returned"
  /\ SyncUnchanged

GoogleTranscribeFile ==
  /\ InCall
  /\ provider = "google"
  /\ \E outcome \in GoogleOutcomes : ret' = GoogleResult(CurFile, outcome)
  /\ fpc' = "returned"
  /\ SyncUnchanged

CustomTranscribeFile ==
  /\ InCall
  /\ provider = "custom_service"
  /\ \E outcome \in CustomOutcomes : ret' = CustomResult(CurFile, outcome)
  /\ fpc' = "returned"
  /\ SyncUnchanged

(***************************************************************************)
(* AmazonTranscribe.transcribe_file: one file through upload, submit,      *)
(* poll, fetch and cleanup inside one try block.                           *)
(***************************************************************************)
\* max_wait_time = 300 (seconds)
file_max_wait_time == 300
\* poll_interval = 5 (seconds)
file_poll_interval == 5

\* f"transcribe-{int(time.time())}-{sanitized_name}"
FileJobName(now, filename) == [ts |-> now \div 1000, name |-> Sanitize(filename)]

\* the job name of the running call, fixed when the call starts at start_time
CurJob == FileJobName(start_time, CurFile)

FileSleepChoices ==
  (IF short_sleeps < MaxShortSleeps THEN {file_poll_interval * 1000} ELSE {})
    \cup {file_max_wait_time * 1000}

AmazonFileUnchanged ==
  UNCHANGED <<entry, provider, provider_name, dir_exists, audio_files, pc, idx,
              results, raised, sink, csv_file, jobs, submitted_jobs, jobs_to_remove,
              s3_keys_to_delete, exit_code>>

\* upload_file: success goes on to the submission, an exception to the handler
AmazonFileUpload ==
  /\ InCall
  /\ provider = "amazon"
  /\ start_time' = clock
  /\ \E ok \in BOOLEAN :
       /\ remote_calls' = Append(remote_calls, Call("upload", FileJobName(clock, CurFile), ok))
       /\ fpc' = IF ok THEN "f_submit" ELSE "f_except"
  /\ AmazonFileUnchanged
  /\ UNCHANGED <<clock, short_sleeps, s3_requests, job_deletes, file_response, ret>>

\* start_transcription_job; the poll loop takes its start_time
AmazonFileSubmit ==
  /\ fpc = "f_submit"
  /\ \E ok \in BOOLEAN :
       /\ remote_calls' = Append(remote_calls, Call("submit", CurJob, ok))
       /\ fpc' = IF ok THEN "f_poll" ELSE "f_except"
  /\ AmazonFileUnchanged
  /\ UNCHANGED <<clock, start_time, short_sleeps, s3_requests, job_deletes,
                 file_response, ret>>

\* the deadline check of the poll loop: raise TimeoutError
AmazonFileTimeout ==
  /\ fpc = "f_poll"
  /\ clock - start_time > file_max_wait_time * 1000
  /\ fpc' = "f_except"
  /\ AmazonFileUnchanged
  /\ UNCHANGED <<clock, start_time, short_sleeps, s3_requests, job_deletes,
                 remote_calls, file_response, ret>>

\* one get_transcription_job of the poll loop: it raises, it finds a
\* terminal status (break), or the loop sleeps
AmazonFilePoll ==
  /\ fpc = "f_poll"
  /\ ~(clock - start_time > file_max_wait_time * 1000)
  /\ UNCHANGED remote_calls
  /\ \E outcome \in PollOutcomes \ {"mismatch"} :
       \/ /\ outcome = "raise"
          /\ fpc' = "f_except"
          /\ UNCHANGED <<clock, short_sleeps, file_response>>
       \/ /\ outcome \in {"COMPLETED", "FAILED"}
          /\ \E r \in PollResponses(outcome) : file_response' = r
          /\ fpc' = "f_delete_object"
          /\ UNCHANGED <<clock, short_sleeps>>
       \/ /\ outcome = "IN_PROGRESS"
          /\ clock - start_time <= ClockCap
          /\ \E d \in FileSleepChoices :
               /\ clock' = clock + d
               /\ short_sleeps' = IF d = file_poll_interval * 1000
                                    THEN short_sleeps + 1 ELSE short_sleeps
          /\ UNCHANGED <<fpc, file_response>>
  /\ AmazonFileUnchanged
  /\ UNCHANGED <<start_time, s3_requests, job_deletes, ret>>

\* self.s3_client.delete_object after the loop
AmazonFileDeleteObject ==
  /\ fpc = "f_delete_object"
  /\ \E ok \in BOOLEAN :
       /\ s3_requests' = Append(s3_requests, [keys |-> <<S3Key(CurFile)>>, ok |-> ok])
       /\ fpc' = IF ~ok THEN "f_except"
                 ELSE IF file_response.status = "COMPLETED" THEN "f_fetch"
                 ELSE "f_delete_job"
  /\ AmazonFileUnchanged
  /\ UNCHANGED <<clock, start_time, short_sleeps, job_deletes, remote_calls,
                 file_response, ret>>

\* the transcript download of a COMPLETED job
AmazonFileFetch ==
  /\ fpc = "f_fetch"
  /\ \E ok \in BOOLEAN :
       /\ remote_calls' = Append(remote_calls, Call("fetch", CurJob, ok))
       /\ fpc' = IF ok THEN "f_delete_job" ELSE "f_except"
  /\ AmazonFileUnchanged
  /\ UNCHANGED <<clock, start_time, short_sleeps, s3_requests, job_deletes,
                 file_response, ret>>

\* the record the try block returns once delete_transcription_job returned
AmazonFileResult(filename, resp) ==
  IF resp.status = "COMPLETED"
    THEN Record(filename, TranscriptText, "success", resp.time)
    ELSE Record(filename, "",
                "failed: " \o (IF resp.reason = Absent THEN "Unknown" ELSE resp.reason), "")

\* delete_transcription_job in the try block, then the return
AmazonFileDeleteJob ==
  /\ fpc = "f_delete_job"
  /\ \E ok \in BOOLEAN :
       /\ job_deletes' = Append(job_deletes, [job |-> CurJob, ok |-> ok])
       /\ IF ok
            THEN /\ ret' = AmazonFileResult(CurFile, file_response)
                 /\ fpc' = "returned"
            ELSE /\ fpc' = "f_except"
                 /\ UNCHANGED ret
  /\ AmazonFileUnchanged
  /\ UNCHANGED <<clock, start_time, short_sleeps, s3_requests, remote_calls,
                 file_response>>

\* the except branch: delete_object and delete_transcription_job inside one
\* try with a bare except, then the exception record
AmazonFileExcept ==
  /\ fpc = "f_except"
  /\ \E object_ok \in BOOLEAN, job_ok \in BOOLEAN :
       /\ ~object_ok => job_ok
       /\ s3_requests' = Append(s3_requests, [keys |-> <<S3Key(CurFile)>>, ok |-> object_ok])
       /\ job_deletes' = IF object_ok
                           THEN Append(job_deletes, [job |-> CurJob, ok |-> job_ok])
                           ELSE job_deletes
  /\ ret' = Record(CurFile, "", "exception: error", "")
  /\ fpc' = "returned"
  /\ AmazonFileUnchanged
  /\ UNCHANGED <<clock, start_time, short_sleeps, remote_calls, file_response>>

\* a direct transcribe_file call returns to its caller
FileReturn ==
  /\ entry = "transcribe_file"
  /\ pc = "start"
  /\ fpc = "returned"
  /\ pc' = "done"
  /\ UNCHANGED FileVars
  /\ UNCHANGED exit_code
  /\ UNCHANGED <<entry, provider, provider_name, dir_exists, audio_files, idx, clock,
                 results, remote_calls, raised, sink, csv_file>>
  /\ UNCHANGED BatchVars

(***************************************************************************)
(* SpeechToTextProvider.transcribe_directory: the sequential loop.         *)
(***************************************************************************)
\* for audio_file in sorted(audio_files): starts
LoopStart ==
  /\ entry \in DirectoryEntries
  /\ pc = "start"
  /\ dir_exists
  /\ audio_files # {}
  /\ provider # "amazon"
  /\ pc' = "loop"
  /\ idx' = 1
  /\ UNCHANGED FileVars
  /\ UNCHANGED exit_code
  /\ UNCHANGED <<entry, provider, provider_name, dir_exists, audio_files, clock,
                 results, remote_calls, raised, sink, csv_file>>
  /\ UNCHANGED BatchVars

\* result['provider'] = self.provider_name; results.append(result): reading
\* an attribute that was never set raises AttributeError
LoopReturn ==
  /\ pc = "loop"
  /\ fpc = "returned"
  /\ IF provider_name = Absent
       THEN /\ pc' = "raised"
            /\ raised' = "AttributeError"
            /\ UNCHANGED <<results, idx>>
       ELSE /\ results' = Append(results, Merge(ret, [provider |-> provider_name]))
            /\ idx' = idx + 1
            /\ UNCHANGED <<pc, raised>>
  /\ fpc' = "idle"
  /\ UNCHANGED <<entry, provider, provider_name, dir_exists, audio_files, clock,
                 remote_calls, sink, csv_file, file_response, ret, exit_code>>
  /\ UNCHANGED BatchVars

\* the loop is over: self._save_to_csv(results, output_csv) comes next
LoopDone ==
  /\ pc = "loop"
  /\ fpc = "idle"
  /\ idx > Len(LoopOrder)
  /\ pc' = "save"
  /\ UNCHANGED FileVars
  /\ UNCHANGED exit_code
  /\ UNCHANGED <<entry, provider, provider_name, dir_exists, audio_files, idx, clock,
                 results, remote_calls, raised, sink, csv_file>>
  /\ UNCHANGED BatchVars

(***************************************************************************)
(* The command-line program: main of speech-text.py.                       *)
(***************************************************************************)
\* the value of exit_code while the process has not exited
NotExited == -1

\* the keyword arguments main passes to ProviderFactory.create_provider in
\* the branch of each provider
MainKwargs(p) ==
  CASE p = "azure" ->
         {"provider", "subscription_key", "region", "language", "endpoint"}
    [] p = "amazon" ->
         {"provider", "aws_access_key_id", "aws_secret_access_key", "region", "language"}
    [] p = "custom_service" -> {"provider", "custom_service_uri"}
    [] p = "google" ->
         {"provider", "project_id", "location", "language", "credentials_file"}

\* def create_provider(provider, config, language="en-US")
FactoryParams == {"provider", "config", "language"}

\* the parameters of create_provider without a default
FactoryRequired == {"provider", "config"}

\* whether a call with these keyword arguments binds to the parameters; a
\* call that does not raises TypeError before the body runs
CallBinds(kwargs) == kwargs \subseteq FactoryParams /\ FactoryRequired \subseteq kwargs

\* <Provider>Config.validate(): an invalid configuration prints the error and
\* raises typer.Exit(1)
MainValidate ==
  /\ entry = "main"
  /\ pc = "main_start"
  /\ \E is_valid \in BOOLEAN :
       IF is_valid
         THEN /\ pc' = "main_create"
              /\ UNCHANGED <<raised, exit_code>>
         ELSE /\ pc' = "exited"
              /\ raised' = "Exit: configuration"
              /\ exit_code' = 1
  /\ UNCHANGED FileVars
  /\ UNCHANGED <<entry, provider, provider_name, dir_exists, audio_files, idx, clock,
                 results, remote_calls, sink, csv_file>>
  /\ UNCHANGED BatchVars

\* stt = ProviderFactory.create_provider(provider=provider, ...) inside the
\* try block: the call binds and transcribe_directory is entered, or it
\* raises TypeError
MainCreateProvider ==
  /\ entry = "main"
  /\ pc = "main_create"
  /\ IF CallBinds(MainKwargs(provider))
       THEN /\ pc' = "start"
            /\ UNCHANGED raised
       ELSE /\ pc' = "main_except"
            /\ raised' = "TypeError"
  /\ UNCHANGED FileVars
  /\ UNCHANGED exit_code
  /\ UNCHANGED <<entry, provider, provider_name, dir_exists, audio_files, idx, clock,
                 results, remote_calls, sink, csv_file>>
  /\ UNCHANGED BatchVars

\* the end of main: the try block completed (exit code 0), or an exception
\* reached 'except NotImplementedError' or 'except Exception': typer.Exit(1)
MainExit ==
  /\ entry = "main"
  /\ pc \in {"done", "raised", "main_except"}
  /\ exit_code' = IF pc = "done" THEN 0 ELSE 1
  /\ pc' = "exited"
  /\ UNCHANGED FileVars
  /\ UNCHANGED <<entry, provider, provider_name, dir_exists, audio_files, idx, clock,
                 results, remote_calls, raised, sink, csv_file>>
  /\ UNCHANGED BatchVars

(***************************************************************************)
(* The specification of the providers.                                     *)
(***************************************************************************)
NoRecord == Record(<<>>, "", Absent, "")

\* an output file left by an earlier run: a header and one row
ExistingTable ==
  [exists |-> TRUE,
   rows |-> <<standard_fields, <<"old.w", "azure", "hi", "success", "1.00">> >>]

Init ==
  /\ entry \in {"main", "transcribe_directory", "transcribe_file"}
  /\ provider \in Providers
  /\ provider_name = ProviderNameAfterInit(provider)
  /\ dir_exists \in BOOLEAN
  /\ audio_files \in {S \in SUBSET FileUniverse : Cardinality(S) <= MaxFiles}
  /\ entry = "transcribe_file" => dir_exists /\ Cardinality(audio_files) = 1
  /\ ~dir_exists => audio_files = {}
  /\ pc = IF entry = "main" THEN "main_start" ELSE "start"
  /\ idx = 1
  /\ clock = 0
  /\ start_time = 0
  /\ short_sleeps = 0
  /\ jobs = <<>>
  /\ submitted_jobs = <<>>
  /\ jobs_to_remove = <<>>
  /\ results = <<>>
  /\ s3_keys_to_delete = <<>>
  /\ s3_requests = <<>>
  /\ job_deletes = <<>>
  /\ remote_calls = <<>>
  /\ raised = Absent
  /\ sink = <<>>
  /\ csv_file \in {NoFile, ExistingTable}
  /\ fpc = "idle"
  /\ file_response = NoResponse
  /\ ret = NoRecord
  /\ exit_code = NotExited

Next ==
  \/ DirNotFound
  \/ DirEmpty
  \/ BatchStart
  \/ UploadStep
  \/ UploadDone
  \/ SubmitSkip
  \/ SubmitStep
  \/ SubmitDone
  \/ PollExit
  \/ PollTimeout
  \/ PollRoundStart
  \/ PollStep
  \/ PollRoundEnd
  \/ CollectStep
  \/ CollectDone
  \/ CleanupStep
  \/ CleanupDone
  \/ SaveResults
  \/ AzureTranscribeFile
  \/ GoogleTranscribeFile
  \/ CustomTranscribeFile
  \/ AmazonFileUpload
  \/ AmazonFileSubmit
  \/ AmazonFileTimeout
  \/ AmazonFilePoll
  \/ AmazonFileDeleteObject
  \/ AmazonFileFetch
  \/ AmazonFileDeleteJob
  \/ AmazonFileExcept
  \/ FileReturn
  \/ LoopStart
  \/ LoopReturn
  \/ LoopDone
  \/ MainValidate
  \/ MainCreateProvider
  \/ MainExit

Spec == Init /\ [][Next]_vars

\* the steps of _wait_for_jobs_completion
PollSweep == PollExit \/ PollTimeout \/ PollRoundStart \/ PollStep \/ PollRoundEnd

\* the poll sweep runs in the one thread of the program, its remote calls
\* return and its sleeps end: a step of the sweep that can be taken is taken
FairSpec == Spec /\ WF_vars(PollSweep)

(***************************************************************************)
(* The specification of the result sink: _save_to_csv called on a          *)
(* destination that is absent or empty at first.                           *)
(***************************************************************************)
\* the records of the batches: the required fields, with the provider tag
\* and timing, and with metadata fields
CsvRecords ==
  { [filename |-> "f1", text |-> "hi", status |-> "success"],
    [filename |-> "f2", provider |-> "azure", text |-> "", status |-> "error: x",
     transcription_time |-> ""],
    [filename |-> "f3", provider |-> "amazon", text |-> "yo", status |-> "success",
     transcription_time |-> "2.00", person |-> "p"],
    [filename |-> "f4", text |-> "", status |-> "failed: y", snr |-> "10dB",
     audio |-> "clip"] }

\* the batches a call can be given: none, one or two records
CsvBatches ==
  {<<>>} \cup {<<r>> : r \in CsvRecords} \cup {<<r, q>> : r \in CsvRecords, q \in CsvRecords}

InitCsv ==
  /\ entry = "save"
  /\ provider = "azure"
  /\ provider_name = ProviderNameAfterInit(provider)
  /\ dir_exists = TRUE
  /\ audio_files = {}
  /\ pc = "start"
  /\ idx = 1
  /\ clock = 0
  /\ start_time = 0
  /\ short_sleeps = 0
  /\ jobs = <<>>
  /\ submitted_jobs = <<>>
  /\ jobs_to_remove = <<>>
  /\ results = <<>>
  /\ s3_keys_to_delete = <<>>
  /\ s3_requests = <<>>
  /\ job_deletes = <<>>
  /\ remote_calls = <<>>
  /\ raised = Absent
  /\ sink = <<>>
  /\ csv_file \in {NoFile, [exists |-> TRUE, rows |-> <<>>]}
  /\ fpc = "idle"
  /\ file_response = NoResponse
  /\ ret = NoRecord
  /\ exit_code = NotExited

\* one call of _save_to_csv(results, output_file)
SaveToCsvCall ==
  /\ entry = "save"
  /\ Len(sink) < MaxSaves
  /\ \E batch \in CsvBatches, read_ok \in BOOLEAN :
       /\ ~csv_file.exists => read_ok
       /\ sink' = Append(sink, SaveCall(batch, csv_file, read_ok))
       /\ csv_file' = SaveToCsv(csv_file, batch, read_ok)
  /\ UNCHANGED FileVars
  /\ UNCHANGED exit_code
  /\ UNCHANGED <<entry, provider, provider_name, dir_exists, audio_files, pc, idx,
                 clock, results, remote_calls, raised>>
  /\ UNCHANGED BatchVars

NextCsv == SaveToCsvCall

SpecCsv == InitCsv /\ [][NextCsv]_vars

(***************************************************************************)
(* The specification of the filename metadata: _add_filename_metadata      *)
(* applied to the record of a file with a supported extension.             *)
(***************************************************************************)
\* the characters of the stems
MetaChars == {"a", "b", "_", "."}

\* the file names: a stem of 1 to MaxStemLen characters and the suffix ".w"
MetaNames ==
  UNION {{s \o <<".", "w">> : s \in [1..n -> MetaChars]} : n \in 1..MaxStemLen}

InitMeta ==
  /\ entry = "metadata"
  /\ provider = "amazon"
  /\ provider_name = ProviderNameAfterInit(provider)
  /\ dir_exists = TRUE
  /\ audio_files \in {{f} : f \in MetaNames}
  /\ pc = "start"
  /\ idx = 1
  /\ clock = 0
  /\ start_time = 0
  /\ short_sleeps = 0
  /\ jobs = <<>>
  /\ submitted_jobs = <<>>
  /\ jobs_to_remove = <<>>
  /\ results = <<>>
  /\ s3_keys_to_delete = <<>>
  /\ s3_requests = <<>>
  /\ job_deletes = <<>>
  /\ remote_calls = <<>>
  /\ raised = Absent
  /\ sink = <<>>
  /\ csv_file = NoFile
  /\ fpc = "idle"
  /\ file_response = NoResponse
  /\ ret = NoRecord
  /\ exit_code = NotExited

\* self._add_filename_metadata(result, filename) on a tagged result
AddFilenameMetadata ==
  /\ entry = "metadata"
  /\ pc = "start"
  /\ \E filename \in audio_files :
       ret' = Merge(Merge(Record(filename, "", "error: upload failed", ""),
                          [provider |-> provider_name]),
                    FilenameMetadata(filename))
  /\ pc' = "done"
  /\ UNCHANGED <<entry, provider, provider_name, dir_exists, audio_files, idx, clock,
                 results, remote_calls, raised, sink, csv_file, fpc, file_response,
                 exit_code>>
  /\ UNCHANGED BatchVars

NextMeta == AddFilenameMetadata

SpecMeta == InitMeta /\ [][NextMeta]_vars

(***************************************************************************)
(* Properties.                                                             *)
(***************************************************************************)
\* a run of the Amazon batch pipeline on a directory with matching files
BatchRun ==
  entry = "transcribe_directory" /\ provider = "amazon" /\ dir_exists /\ audio_files # {}

\* _batch_transcribe has returned its results
BatchReturned == BatchRun /\ pc \in {"save", "done"}

\* the transcript download logged for a job succeeded
FetchSucceeded(job) ==
  \E c \in 1..Len(remote_calls) :
    remote_calls[c].op = "fetch" /\ remote_calls[c].job = job /\ remote_calls[c].ok

\* C1: the batch pipeline never raises and returns exactly one record per
\* input file, whatever faults occur
C1_OneRecordPerFile ==
  BatchRun =>
    /\ raised = Absent
    /\ pc \in {"save", "done"} =>
         /\ Len(results) = Cardinality(audio_files)
         /\ \A f \in audio_files :
              Cardinality({i \in 1..Len(results) : results[i].filename = f}) = 1

\* C2: when the cleanup has ended, the key of every descriptor whose upload
\* succeeded is in exactly one delete_objects request that was issued
C2_S3DeleteAttemptedOnce ==
  BatchReturned =>
    \A i \in 1..Len(jobs) :
      jobs[i].status # "upload_failed" =>
        Cardinality({r \in 1..Len(s3_requests) :
                       jobs[i].s3_key \in Range(s3_requests[r].keys)}) = 1

\* C3: when the collect-and-cleanup sweep has ended, delete_transcription_job
\* was attempted for every descriptor whose job was submitted
C3_JobDeleteAttempted ==
  BatchReturned =>
    \A i \in 1..Len(jobs) :
      jobs[i].status \in {"submitted", "completed", "failed", "check_failed"} =>
        \E d \in 1..Len(job_deletes) : job_deletes[d].job = jobs[i].job_name

\* C4: a cleanup failure never changes a result: a completed job whose
\* transcript was fetched has a success record with the fetched text, and
\* nothing is raised out of the batch
C4_CleanupFailureKeepsResult ==
  BatchRun =>
    /\ raised = Absent
    /\ \A i \in 1..Len(results) :
         (jobs[i].status = "completed" /\ FetchSucceeded(jobs[i].job_name)) =>
           results[i].status = "success" /\ results[i].text = TranscriptText

StatusForward(a, b) ==
  \/ a = b
  \/ a = "uploaded" /\ b \in {"submitted", "submit_failed"}
  \/ a = "submitted" /\ b \in {"completed", "failed", "check_failed"}

\* C6: no step changes the status of an entry of the jobs map except forward
\* along uploaded -> submitted -> {completed, failed, check_failed} or
\* uploaded -> submit_failed
C6_StatusForwardOnly ==
  [][BatchRun =>
       \A i \in 1..Len(jobs) :
         /\ i <= Len(jobs')
         /\ jobs'[i].job_name = jobs[i].job_name
         /\ StatusForward(jobs[i].status, jobs'[i].status)]_vars

\* C7: the job names generated in one upload sweep are pairwise distinct, so
\* that the jobs map has one entry per input file
C7_JobNamesDistinct ==
  BatchRun =>
    /\ \A i, j \in 1..Len(remote_calls) :
         (i # j /\ remote_calls[i].op = "upload" /\ remote_calls[j].op = "upload") =>
           remote_calls[i].job # remote_calls[j].job
    /\ pc = "submit" => Len(jobs) = Cardinality(audio_files)

\* C8: transcribe_file of every provider raises nothing and returns one
\* record with filename, text and status, the text being empty whenever the
\* status is not 'success'
C8_TranscribeFileReturnsRecord ==
  /\ entry = "transcribe_file" => raised = Absent
  /\ (entry = "transcribe_file" /\ pc = "done") => fpc = "returned"
  /\ fpc = "returned" =>
       /\ {"filename", "text", "status"} \subseteq DOMAIN ret
       /\ ret.filename = CurFile
       /\ ret.status # "success" => ret.text = ""

\* a transcribe_file call has returned the record of a failure
C8_Witness ==
  /\ entry = "transcribe_file"
  /\ pc = "done"
  /\ fpc = "returned"
  /\ ret.status # "success"
  /\ ret.text = ""

\* C9: transcribe_directory of each provider raises nothing and hands the
\* sink one record per matching file, each tagged with the provider's name
C9_DirectoryTagsRecords ==
  (entry = "transcribe_directory" /\ dir_exists /\ audio_files # {}) =>
    /\ raised = Absent
    /\ pc = "done" =>
         /\ Len(sink) = 1
         /\ Len(sink[1].batch) = Cardinality(audio_files)
         /\ \A i \in 1..Len(sink[1].batch) : sink[1].batch[i].provider = provider

\* C10: after a first call created the table and a second call appended a
\* batch with a field the first batch did not have, the header line of the
\* file holds the fields of both batches
C10_HeaderIsUnion ==
  ( /\ entry = "save"
    /\ Len(sink) = 2
    /\ ~sink[1].existed
    /\ sink[1].batch # <<>>
    /\ sink[2].batch # <<>>
    /\ sink[2].read_ok
    /\ AllKeys(sink[2].batch) \ AllKeys(sink[1].batch) # {} ) =>
    Range(csv_file.rows[1]) = AllKeys(sink[1].batch) \cup AllKeys(sink[2].batch)

\* a is the beginning of b
IsPrefix(a, b) == Len(a) <= Len(b) /\ SubSeq(b, 1, Len(a)) = a

\* the last _save_to_csv call made
LastSave == sink[Len(sink)]

\* the last call was given a non-empty batch
SavedBatch == sink # <<>> /\ LastSave.batch # <<>>

\* C11: when the destination already has a header line, the fieldnames the
\* call resolves are that header, unchanged, followed only by fields of the
\* batch that the header lacks, each once; the file is opened in append mode
\* and the call writes no header line, only one row per record
C11_AppendKeepsHeaderPrefix ==
  (entry = "save" /\ SavedBatch /\ LastSave.before # <<>>) =>
    LET header == LastSave.before[1]
        names == LastSave.fieldnames
    IN /\ IsPrefix(header, names)
       /\ \A i \in (Len(header) + 1)..Len(names) :
            /\ names[i] \in AllKeys(LastSave.batch) \ Range(header)
            /\ \A j \in (Len(header) + 1)..Len(names) : names[i] = names[j] => i = j
       /\ AllKeys(LastSave.batch) \subseteq Range(names)
       /\ LastSave.mode = "a"
       /\ csv_file.rows[1] = header
       /\ Len(csv_file.rows) = Len(LastSave.before) + Len(LastSave.batch)

\* C12: a non-empty batch saved to a destination that is absent or has no
\* content leaves a file that is one header line in the computed column
\* order followed by one row per record
C12_FreshFileGetsHeader ==
  (entry = "save" /\ SavedBatch /\ LastSave.before = <<>>) =>
    /\ Len(csv_file.rows) = 1 + Len(LastSave.batch)
    /\ csv_file.rows[1] = ComputedFieldnames(LastSave.batch)
    /\ \A i \in 1..Len(LastSave.batch) :
         csv_file.rows[i + 1] = CsvRow(csv_file.rows[1], LastSave.batch[i])

\* C13: no _save_to_csv call truncates, rewrites or removes what a file with
\* a header and rows already holds: the old content is the beginning of the
\* new content, also when reading the header fails
C13_PriorContentKept ==
  [][(entry = "save" /\ Len(csv_file.rows) >= 2) =>
       IsPrefix(csv_file.rows, csv_file'.rows)]_vars

\* the sequential loop of the base transcribe_directory is running
BaseLoopRun ==
  entry = "transcribe_directory" /\ provider # "amazon" /\ pc = "loop"

\* C14: transcribe_directory processes the files in natural order of their
\* names: the records of the sequential loop, the file whose call has just
\* returned, and the entries of the upload sweep
C14_NaturalOrder ==
  /\ BaseLoopRun =>
       /\ \A i, j \in 1..Len(results) :
            i < j => NaturalLess(results[i].filename, results[j].filename)
       /\ (fpc = "returned" /\ results # <<>>) =>
            NaturalLess(results[Len(results)].filename, ret.filename)
  /\ (BatchRun /\ pc \in {"upload", "submit"}) =>
       \A i, j \in 1..Len(jobs) :
         i < j => NaturalLess(jobs[i].filename, jobs[j].filename)

\* the four metadata fields, in the order of the stem's parts
MetaFields == <<"person", "audio", "noise", "snr">>

\* _add_filename_metadata has been applied to the record in ret
MetadataAdded == entry = "metadata" /\ pc = "done"

\* the k-th metadata field of the record is the k-th part of the stem, and
\* the field is absent when the stem has fewer parts
PositionalFrom(k) ==
  LET parts == SplitUnderscore(Stem(ret.filename))
  IN IF k <= Len(parts)
       THEN MetaFields[k] \in DOMAIN ret /\ ret[MetaFields[k]] = parts[k]
       ELSE MetaFields[k] \notin DOMAIN ret

\* the stem of the record's file name has no underscore
NoUnderscore ==
  LET stem == Stem(ret.filename) IN \A i \in 1..Len(stem) : stem[i] # "_"

\* the example of the four-part name: a_b_a_b.w
FourPartExample ==
  ret.filename = <<"a", "_", "b", "_", "a", "_", "b", ".", "w">> =>
    /\ ret.person = <<"a">>
    /\ ret.audio = <<"b">>
    /\ ret.noise = <<"a">>
    /\ ret.snr = <<"b">>

\* C15 as stated: the fields person, audio, noise, snr are the parts of the
\* stem by position, and a stem without underscore yields none of the four
C15_MetadataFromFilename ==
  MetadataAdded =>
    /\ FourPartExample
    /\ IF NoUnderscore
         THEN \A k \in 1..4 : MetaFields[k] \notin DOMAIN ret
         ELSE \A k \in 1..4 : PositionalFrom(k)

\* C15 as amended: the fields are the parts of the stem by position, a field
\* being absent when the stem has fewer parts; a stem without underscore
\* yields person (the whole stem) and none of audio, noise, snr
C15_MetadataPositional ==
  MetadataAdded =>
    /\ FourPartExample
    /\ \A k \in 1..4 : PositionalFrom(k)
    /\ NoUnderscore =>
         /\ ret.person = Stem(ret.filename)
         /\ \A k \in 2..4 : MetaFields[k] \notin DOMAIN ret
    /\ \A f \in {"filename", "text", "status", "transcription_time", "provider"} :
         f \in DOMAIN ret

\* the record of ab.w has been given person = ab and no other metadata field
C15_Witness ==
  /\ MetadataAdded
  /\ ret.filename = <<"a", "b", ".", "w">>
  /\ "person" \in DOMAIN ret
  /\ ret.person = <<"a", "b">>
  /\ \A k \in 2..4 : MetaFields[k] \notin DOMAIN ret

\* a transcribe_directory call on a directory that does not exist or holds
\* no matching file
NothingToDo == entry = "transcribe_directory" /\ (~dir_exists \/ audio_files = {})

\* C16: transcribe_directory on a missing directory fails with ValueError,
\* and on a directory without matching files returns normally; in both cases
\* no transcribe_file call and no remote call is made and the output file is
\* neither created nor modified
C16_NothingToDoNoWork ==
  /\ [](NothingToDo =>
          /\ remote_calls = <<>>
          /\ s3_requests = <<>>
          /\ job_deletes = <<>>
          /\ fpc = "idle"
          /\ ret = NoRecord
          /\ results = <<>>
          /\ IF dir_exists
               THEN pc \in {"start", "done"} /\ raised = Absent
               ELSE /\ pc \in {"start", "raised"}
                    /\ raised = (IF pc = "raised" THEN "ValueError" ELSE Absent))
  /\ [][NothingToDo => csv_file' = csv_file]_vars

\* transcribe_directory has failed on a missing directory, the output file of
\* an earlier run being as it was
C16_Witness ==
  /\ entry = "transcribe_directory"
  /\ ~dir_exists
  /\ pc = "raised"
  /\ raised = "ValueError"
  /\ csv_file = ExistingTable

\* position of an element in a sequence that holds it
PosIn(seq, x) == CHOOSE i \in 1..Len(seq) : seq[i] = x

\* C17: for a non-empty batch written to an absent destination the column
\* order holds each field of the records exactly once: those of (filename,
\* provider, text, status, transcription_time) first and in that order, then
\* the other fields in lexicographic order; it is the header of the file
C17_ColumnOrder ==
  (entry = "save" /\ SavedBatch /\ ~LastSave.existed) =>
    LET names == LastSave.fieldnames
        keys == AllKeys(LastSave.batch)
        Std(x) == x \in Range(standard_fields)
    IN /\ Range(names) = keys
       /\ Len(names) = Cardinality(keys)
       /\ \A i, j \in 1..Len(names) :
            i < j =>
              \/ Std(names[i]) /\ ~Std(names[j])
              \/ /\ Std(names[i]) /\ Std(names[j])
                 /\ PosIn(standard_fields, names[i]) < PosIn(standard_fields, names[j])
              \/ /\ ~Std(names[i]) /\ ~Std(names[j])
                 /\ PosIn(OtherFieldsSorted, names[i]) < PosIn(OtherFieldsSorted, names[j])
       /\ csv_file.rows[1] = names

\* a first call has written a table whose records carry three of the other
\* fields
C17_Witness ==
  /\ entry = "save"
  /\ Len(sink) = 1
  /\ ~sink[1].existed
  /\ Len(sink[1].batch) = 2
  /\ csv_file.rows[1] = <<"filename", "provider", "text", "status",
                          "transcription_time", "audio", "person", "snr">>

\* C18: when the configuration validates and the input directory exists,
\* main creates the provider, runs transcribe_directory and exits with code
\* zero, whatever the status of the records
C18_MainExitsZero ==
  (entry = "main" /\ pc = "exited" /\ dir_exists /\ raised # "Exit: configuration") =>
    /\ exit_code = 0
    /\ audio_files # {} => Len(sink) = 1

\* a direct transcribe_file call of the Amazon provider
AmazonFileCall == entry = "transcribe_file" /\ provider = "amazon"

\* C19: when the Amazon transcribe_file returns, the deletion of the S3
\* object and the deletion of the remote job have each been attempted, and
\* no deletion failure has changed the record: a completed job whose
\* transcript was fetched gives 'success' with the text, a failed job gives
\* 'failed: <reason>'
C19_SingleFileCleanup ==
  (AmazonFileCall /\ fpc = "returned") =>
    /\ \E r \in 1..Len(s3_requests) : s3_requests[r].keys = <<S3Key(CurFile)>>
    /\ \E d \in 1..Len(job_deletes) : job_deletes[d].job = CurJob
    /\ (file_response.status = "COMPLETED" /\ FetchSucceeded(CurJob)) =>
         ret.status = "success" /\ ret.text = TranscriptText
    /\ file_response.status = "FAILED" =>
         ret.status = "failed: " \o file_response.reason /\ ret.text = ""

\* the entry of the jobs map with a job name
JobOf(job_name) == jobs[DictIndex(jobs, job_name)]

\* C20: a pending descriptor whose poll raises becomes 'check_failed' with
\* its error recorded in that step and is queued for removal, the round going
\* on with the next pending descriptor and the other entries unchanged; at
\* the top of a round no finished descriptor is pending, and only
\* descriptors in 'submitted' are polled
C20_PollFaultIsTerminal ==
  /\ []((BatchRun /\ pc = "poll_call" /\ idx <= Len(submitted_jobs)) =>
          JobOf(submitted_jobs[idx]).status = "submitted")
  /\ []((BatchRun /\ pc = "poll_top") =>
          \A n \in 1..Len(submitted_jobs) : JobOf(submitted_jobs[n]).status = "submitted")
  /\ [][BatchRun =>
          \A i \in 1..Len(jobs) :
            (i <= Len(jobs') /\ jobs[i].status # "check_failed"
               /\ jobs'[i].status = "check_failed") =>
              /\ jobs[i].status = "submitted"
              /\ jobs'[i].error # NoError
              /\ jobs'[i].job_name = jobs[i].job_name
              /\ jobs[i].job_name \in Range(jobs_to_remove')
              /\ pc = "poll_call" /\ pc' = "poll_call"
              /\ submitted_jobs[idx] = jobs[i].job_name
              /\ idx' = idx + 1
              /\ submitted_jobs' = submitted_jobs
              /\ \A k \in 1..Len(jobs) : k # i => jobs'[k] = jobs[k]]_vars

\* a later round is about to poll a pending descriptor after another one
\* failed its check and left the pending set
C20_Witness ==
  /\ BatchRun
  /\ pc = "poll_call"
  /\ idx = 1
  /\ Len(submitted_jobs) = 1
  /\ short_sleeps >= 1
  /\ \E i \in 1..Len(jobs) :
       /\ jobs[i].status = "check_failed"
       /\ jobs[i].error = "poll failed"
       /\ jobs[i].job_name \notin Range(submitted_jobs)

\* C21: a poll response that names another job is a fault: the descriptor is
\* 'check_failed' with the error recorded, and neither the status nor the
\* body of that response is ever stored on a descriptor
C21_MismatchIsFault ==
  BatchRun =>
    \A i \in 1..Len(jobs) :
      /\ jobs[i].response \notin MismatchResponses
      /\ jobs[i].error = "Job name mismatch" =>
           /\ jobs[i].status = "check_failed"
           /\ jobs[i].response = NoResponse
           /\ i <= Len(results) =>
                results[i].status = "error: Job name mismatch" /\ results[i].text = ""

\* a batch has returned the record of a descriptor whose poll was answered
\* for another job
C21_Witness ==
  /\ BatchReturned
  /\ \E i \in 1..Len(jobs) :
       /\ jobs[i].error = "Job name mismatch"
       /\ jobs[i].status = "check_failed"
       /\ results[i].status = "error: Job name mismatch"

\* the job names of the entries whose status is 'submitted'
SubmittedStatusNames ==
  {jobs[i].job_name : i \in {k \in 1..Len(jobs) : jobs[k].status = "submitted"}}

\* the poll sweep has returned
AfterPollSweep == BatchRun /\ pc \in {"collect", "cleanup", "save", "done"}

\* C22: at every round boundary the pending set is the set of descriptors in
\* 'submitted'; when the sweep has returned before the deadline none is left
\* in 'submitted'; a descriptor with a terminal answer stores the response
\* and is not polled again
C22_PendingIsSubmitted ==
  BatchRun =>
    /\ pc = "poll_top" =>
         /\ Range(submitted_jobs) = SubmittedStatusNames
         /\ Cardinality(Range(submitted_jobs)) = Len(submitted_jobs)
    /\ (AfterPollSweep /\ ~(clock - start_time > max_wait_time * 1000)) =>
         SubmittedStatusNames = {}
    /\ \A i \in 1..Len(jobs) :
         jobs[i].status \in {"completed", "failed"} =>
           /\ jobs[i].response.status = (IF jobs[i].status = "completed"
                                           THEN "COMPLETED" ELSE "FAILED")
           /\ jobs[i].response \in PollResponses(jobs[i].response.status)
           /\ (pc = "poll_call" /\ idx <= Len(submitted_jobs)) =>
                submitted_jobs[idx] # jobs[i].job_name

\* a round boundary with one descriptor finished and stored and the other
\* one still pending
C22_Witness ==
  /\ BatchRun
  /\ pc = "poll_top"
  /\ Len(jobs) = 2
  /\ Len(submitted_jobs) = 1
  /\ \E i \in 1..Len(jobs) :
       /\ jobs[i].status = "completed"
       /\ jobs[i].response.status = "COMPLETED"
       /\ jobs[i].job_name \notin Range(submitted_jobs)

\* the poll sweep has stopped at the deadline with a descriptor still in
\* 'submitted'
TimedOut == AfterPollSweep /\ SubmittedStatusNames # {}

FetchFailed(job) ==
  \E c \in 1..Len(remote_calls) :
    remote_calls[c].op = "fetch" /\ remote_calls[c].job = job /\ ~remote_calls[c].ok

\* C24: a failed transcript download of a 'completed' descriptor gives that
\* descriptor a record with empty text and a status other than success,
\* raises nothing out of the batch, and the descriptors after it get their
\* records
C24_FetchFailureIsRecord ==
  BatchRun =>
    /\ raised = Absent
    /\ \A i \in 1..Len(results) :
         (jobs[i].status = "completed" /\ FetchFailed(jobs[i].job_name)) =>
           /\ results[i].filename = jobs[i].filename
           /\ results[i].text = ""
           /\ results[i].status # "success"
    /\ pc \in {"cleanup", "save", "done"} =>
         /\ Len(results) = Len(jobs)
         /\ \A i \in 1..Len(jobs) : results[i].filename = jobs[i].filename

\* the download of the first descriptor failed and the second descriptor
\* has its success record
C24_Witness ==
  /\ BatchReturned
  /\ Len(jobs) = 2
  /\ jobs[1].status = "completed"
  /\ FetchFailed(jobs[1].job_name)
  /\ results[1].status = "exception: fetch failed"
  /\ results[2].status = "success"

\* the calls of an operation logged for a job name
CallsOf(op, job) ==
  {c \in 1..Len(remote_calls) : remote_calls[c].op = op /\ remote_calls[c].job = job}

\* the step appends a call of the operation to the log
Calls(op) ==
  /\ Len(remote_calls') = Len(remote_calls) + 1
  /\ remote_calls'[Len(remote_calls')].op = op

\* C25: start_transcription_job is called only for a descriptor in
\* 'uploaded' and at most once each, get_transcription_job only for a
\* descriptor in 'submitted', the transcript fetch only for one in
\* 'completed': a descriptor whose upload failed is never submitted, polled
\* or fetched, one whose submit failed never polled or fetched
C25_FailedDescriptorsExcluded ==
  /\ [](BatchRun =>
          /\ \A i \in 1..Len(jobs) :
               /\ jobs[i].status = "upload_failed" =>
                    /\ CallsOf("submit", jobs[i].job_name) = {}
                    /\ CallsOf("fetch", jobs[i].job_name) = {}
               /\ jobs[i].status = "submit_failed" =>
                    CallsOf("fetch", jobs[i].job_name) = {}
               /\ Cardinality(CallsOf("submit", jobs[i].job_name)) <= 1
          /\ pc \in {"poll_top", "poll_call"} =>
               \A n \in 1..Len(submitted_jobs) :
                 JobOf(submitted_jobs[n]).status \notin {"upload_failed", "submit_failed",
                                                         "uploaded"}
          /\ (pc = "poll_call" /\ idx <= Len(submitted_jobs)) =>
               JobOf(submitted_jobs[idx]).status = "submitted")
  /\ [][BatchRun =>
          /\ Calls("submit") =>
               /\ pc = "submit"
               /\ jobs[idx].status = "uploaded"
               /\ remote_calls'[Len(remote_calls')].job = jobs[idx].job_name
          /\ Calls("fetch") =>
               /\ pc = "collect"
               /\ jobs[idx].status = "completed"
               /\ remote_calls'[Len(remote_calls')].job = jobs[idx].job_name]_vars

\* a batch has returned with a descriptor whose upload failed, next to one
\* that was submitted, polled and fetched
C25_Witness ==
  /\ BatchReturned
  /\ Len(jobs) = 2
  /\ jobs[1].status = "upload_failed"
  /\ jobs[2].status = "completed"
  /\ CallsOf("submit", jobs[1].job_name) = {}
  /\ CallsOf("fetch", jobs[2].job_name) # {}

\* C26: a descriptor carries an S3 key if and only if its upload succeeded
C26_KeyIffUploaded ==
  BatchRun =>
    \A i \in 1..Len(jobs) :
      ("s3_key" \in DOMAIN jobs[i]) <=> (jobs[i].status # "upload_failed")

\* C28: after the _save_to_csv calls made on a destination that was absent
\* at first, every row of the file has as many fields as its header line
C28_RowsMatchHeader ==
  (entry = "save" /\ sink # <<>> /\ ~sink[1].existed) =>
    \A i \in 1..Len(csv_file.rows) : Len(csv_file.rows[i]) = Len(csv_file.rows[1])

\* the keys of the delete_objects requests issued so far
RequestedKeys == UNION {Range(s3_requests[r].keys) : r \in 1..Len(s3_requests)}

\* C29: the key of a descriptor in 'upload_failed' is in no delete_objects
\* request
C29_CleanupOnlyUploaded ==
  BatchRun =>
    \A i \in 1..Len(jobs) :
      jobs[i].status = "upload_failed" => jobs[i].s3_key \notin RequestedKeys

\* C30: a delete_objects request holds the key of a descriptor only when the
\* descriptor was never submitted or its remote job was observed COMPLETED or
\* FAILED
C30_ObjectDeletedAfterJobEnds ==
  BatchRun =>
    \A i \in 1..Len(jobs) :
      jobs[i].s3_key \in RequestedKeys =>
        jobs[i].status \in {"upload_failed", "submit_failed", "completed", "failed"}

\* C30, amended: delete_objects requests are issued only after the poll sweep
\* has ended; a request holds the key of a descriptor that was never
\* submitted, or was observed COMPLETED or FAILED, or whose poll raised, or
\* that is still 'submitted' with the global poll deadline exceeded
C30_ObjectDeletedAfterSweep ==
  BatchRun =>
    /\ s3_requests # <<>> => pc \in {"cleanup", "save", "done"}
    /\ \A i \in 1..Len(jobs) :
         jobs[i].s3_key \in RequestedKeys =>
           /\ jobs[i].status \in {"upload_failed", "submit_failed", "completed",
                                  "failed", "check_failed", "submitted"}
           /\ jobs[i].status = "submitted" =>
                clock - start_time > max_wait_time * 1000

\* the cleanup has requested the deletion of the object of a descriptor that
\* was still 'submitted' at the deadline, and of one whose job completed
C30_Witness ==
  /\ BatchReturned
  /\ clock - start_time > max_wait_time * 1000
  /\ \E i \in 1..Len(jobs) :
       jobs[i].status = "submitted" /\ jobs[i].s3_key \in RequestedKeys
  /\ \E i \in 1..Len(jobs) :
       jobs[i].status = "completed" /\ jobs[i].s3_key \in RequestedKeys

====
